---- MODULE Spec2Model ----
(***************************************************************************)
(* The MQTT "Twitter" publisher and subscriber GUIs (src/publisher.py,    *)
(* src/subscriber.py) as one state machine.  The two programs share the   *)
(* connection handling line for line; `app` says which of them runs.      *)
(*                                                                         *)
(* Threads: the Tk UI thread (user actions and the two drain timers), one *)
(* worker thread per _connect_async call, and one paho network-loop       *)
(* thread per client on which loop_start() was called.  The paho client   *)
(* and the broker are the environment: their state is `mqtt`, and their   *)
(* steps are the Net... and Broker... actions, which call the program's   *)
(* callbacks.                                                              *)
(*                                                                         *)
(* The environment follows paho-mqtt: connect() blocks until the socket   *)
(* is open and CONNECT is sent, or raises; the network loop calls          *)
(* on_connect when CONNACK arrives and on_disconnect when the socket       *)
(* closes; after disconnect() the loop ends, otherwise it reconnects;      *)
(* subscribe/unsubscribe/publish on a client without a connection return   *)
(* an error code and do not raise.                                         *)
(*                                                                         *)
(* Strings are sequences of one-character strings.                         *)
(***************************************************************************)
EXTENDS Integers, Sequences, FiniteSets, TLC

\* ------------------------------------------------------------------ bounds
\* Connection attempts: the worker threads (hence clients) the user's
\* Connect starts, plus the reconnections the network loops make on their own.
MaxAttempts == 2
\* Messages the broker delivers to at least one session.
MaxMsgs == 2
\* Length of the texts sanitize_hashtag is given in SanitizeSpec.
MaxLen == 3

Clients == 1..MaxAttempts

\* ------------------------------------------------------------ Topic Naming
TOPIC_PREFIX == <<"t", "w", "i", "t", "t", "e", "r", "/">>

Letters == {"a", "b", "Z"}
Digits == {"7"}
Whitespace == {" ", "\t"}

\* [A-Za-z0-9_\-]
IsAllowed(ch) == ch \in Letters \cup Digits \cup {"_", "-"}

RECURSIVE lstrip(_)
lstrip(s) ==
    IF s # <<>> /\ Head(s) \in Whitespace THEN lstrip(Tail(s)) ELSE s

RECURSIVE rstrip(_)
rstrip(s) ==
    IF s # <<>> /\ s[Len(s)] \in Whitespace
    THEN rstrip(SubSeq(s, 1, Len(s) - 1))
    ELSE s

\* str.strip()
strip(s) == rstrip(lstrip(s))

\* re.sub(r"\s+", "_", tag): every maximal run of whitespace becomes one "_".
RECURSIVE sub_whitespace(_)
sub_whitespace(s) ==
    IF s = <<>> THEN <<>>
    ELSE IF Head(s) \in Whitespace
         THEN <<"_">> \o sub_whitespace(lstrip(s))
         ELSE <<Head(s)>> \o sub_whitespace(Tail(s))

\* Mutant of sub_disallowed: nothing is removed.
sub_nothing(s) == s

\* Mutant of sub_disallowed: "#" is kept too.
sub_keep_hash(s) == SelectSeq(s, LAMBDA ch : IsAllowed(ch) \/ ch = "#")

\* re.sub(r"[^A-Za-z0-9_\-]", "", tag)
sub_disallowed(s) == SelectSeq(s, IsAllowed)

sanitize_hashtag(tag) ==
    LET t1 == strip(tag)
        t2 == IF t1 # <<>> /\ Head(t1) = "#" THEN Tail(t1) ELSE t1
    IN  sub_disallowed(sub_whitespace(t2))

\* The characters of the texts of SanitizeSpec: letters, a digit, "_", "-",
\* "#", other punctuation and whitespace.
Alphabet == Letters \cup Digits \cup {"_", "-", "#", "!"} \cup Whitespace

\* The texts of at most n characters.
Texts(n) == UNION { [1..k -> Alphabet] : k \in 0..n }

\* What the user types into the hashtag entry.
HashtagInputs ==
    { <<"a">>, <<"#", "a">>, <<" ", "a", "!">>, <<"#", "#">>, <<>> }

\* What the user types into the tweet body.
TweetInputs == { <<>>, <<" ">>, <<"h", "i">> }

Tags == { sanitize_hashtag(r) : r \in HashtagInputs } \ { <<>> }

topic_of(tag) == TOPIC_PREFIX \o tag

\* ------------------------------------------------------------------- state
VARIABLES
    app,            \* "publisher" or "subscriber": the program that runs
    client,         \* self.client: 0 is None, else the client's id
    connected,      \* self.connected
    subscribed,     \* self.subscribed (subscriber)
    sub_list,       \* self.sub_list, the Listbox rows (subscriber)
    tweet_text,     \* self.tweet_text (publisher)
    status_queue,   \* self.status_queue
    msg_queue,      \* self.msg_queue (subscriber)
    uiPc,           \* what the UI thread runs: "idle", "drainS", "drainM"
    statusTimer,    \* an after(..., self._drain_status_queue) is pending
    msgTimer,       \* an after(..., self._drain_message_queue) is pending
    worker,         \* worker[w]: position of the w-th connect worker thread
    mqtt,           \* mqtt[c]: the paho client c and its broker session
    nMsgs,          \* messages the broker has delivered so far
    nReconn,        \* reconnections the network loops have made so far
    calls,          \* history: the broker-client calls the last step issued
                    \*   and the message boxes it showed
    putS,           \* history: number of puts on status_queue
    gotS,           \* history: ids of the status events the UI handled
    nGotS,          \* history: number of status events the UI handled
    putM,           \* history: the lines put on msg_queue
    gotM,           \* history: the lines the UI appended to the feed
    nGotM,          \* history: number of lines the UI appended to the feed
    outcome,        \* history: outcome[a] of the attempt of worker a:
                    \*   "pending", or what it put when it completed (its
                    \*   connect raised, or CONNACK came on the connection
                    \*   its connect opened): "one" Connected or error
                    \*   event, "none", or "many"
    discShown,      \* history: per client, the "Disconnected" notices shown
                    \*   for its connect cycle: since its last Connected was
                    \*   handled, counted to Many; -1 before its first
    sanitized       \* SanitizeSpec: the text `raw` given to sanitize_hashtag,
                    \*   the `tag` it returned last, the text `arg` that call
                    \*   was given, and the number n of calls made: each call
                    \*   is given what the call before it returned

vars == << app, client, connected, subscribed, sub_list, tweet_text,
           status_queue, msg_queue, uiPc, statusTimer, msgTimer, worker,
           mqtt, nMsgs, nReconn, calls, putS, gotS, nGotS, putM, gotM, nGotM,
           outcome, discShown, sanitized >>

\* The variables of the two programs.
appVars == << app, client, connected, subscribed, sub_list, tweet_text,
              status_queue, msg_queue, uiPc, statusTimer, msgTimer, worker,
              mqtt, nMsgs, nReconn, calls, putS, gotS, nGotS, putM, gotM, nGotM,
              outcome, discShown >>

uiVars == << connected, subscribed, sub_list, tweet_text >>
netVars == << nMsgs, nReconn >>
timerVars == << uiPc, statusTimer, msgTimer >>
histS == << putS, gotS, nGotS, outcome >>
histM == << putM, gotM, nGotM >>

\* A client that mqtt.Client() has not created yet.
NoClient ==
    [ made |-> FALSE, on_connect |-> FALSE, on_disconnect |-> FALSE,
      on_message |-> FALSE, sock |-> "none", by |-> 0, loop |-> "none",
      disc |-> FALSE, subs |-> {}, inbox |-> <<>> ]

\* sanitize_hashtag was not called on `text` yet.
NotSanitized(text) == [raw |-> text, arg |-> text, tag |-> text, n |-> 0]

\* Mutant of __init__: the connected flag starts set.
init_connected ==
    /\ app \in {"publisher", "subscriber"}
    /\ client = 0
    /\ connected = TRUE
    /\ subscribed = {}
    /\ sub_list = <<>>
    /\ tweet_text = <<>>
    /\ status_queue = <<>>
    /\ msg_queue = <<>>
    /\ uiPc = "idle"
    /\ statusTimer = TRUE
    /\ msgTimer = (app = "subscriber")
    /\ worker = [w \in Clients |-> "none"]
    /\ mqtt = [c \in Clients |-> NoClient]
    /\ nMsgs = 0
    /\ nReconn = 0
    /\ calls = {}
    /\ putS = 0
    /\ gotS = {}
    /\ nGotS = 0
    /\ putM = {}
    /\ gotM = {}
    /\ nGotM = 0
    /\ outcome = [a \in Clients |-> "pending"]
    /\ discShown = [c \in Clients |-> -1]

\* The state after the constructor.
__init__ ==
    /\ app \in {"publisher", "subscriber"}
    /\ client = 0
    /\ connected = FALSE
    /\ subscribed = {}
    /\ sub_list = <<>>
    /\ tweet_text = <<>>
    /\ status_queue = <<>>
    /\ msg_queue = <<>>
    /\ uiPc = "idle"
    /\ statusTimer = TRUE
    /\ msgTimer = (app = "subscriber")
    /\ worker = [w \in Clients |-> "none"]
    /\ mqtt = [c \in Clients |-> NoClient]
    /\ nMsgs = 0
    /\ nReconn = 0
    /\ calls = {}
    /\ putS = 0
    /\ gotS = {}
    /\ nGotS = 0
    /\ putM = {}
    /\ gotM = {}
    /\ nGotM = 0
    /\ outcome = [a \in Clients |-> "pending"]
    /\ discShown = [c \in Clients |-> -1]

Init == __init__ /\ sanitized = NotSanitized(<<>>)

\* ------------------------------------------------------------ Event Bridge
\* queue.Queue.put: the status events `evs` (a sequence of <<kind, src, cyc>>)
\* are appended in order.  History fields: `src` is the client whose callback
\* (or the worker whose except clause) put the event, `cyc` says that a
\* Disconnected event ends an established session, `id` numbers the puts.
RECURSIVE put_all(_, _, _)
put_all(q, evs, n) ==
    IF evs = <<>> THEN q
    ELSE put_all(Append(q, [kind |-> Head(evs)[1], src |-> Head(evs)[2],
                            cyc |-> Head(evs)[3], id |-> n + 1]),
                 Tail(evs), n + 1)

\* The history counters stop at Many: "more than once".
Many == 2

UpTo(n) == IF n > Many THEN Many ELSE n

\* How many of `evs` are Connected or error events.
Outcomes(evs) ==
    Cardinality({ i \in 1..Len(evs) : evs[i][1] \in {"connected", "error"} })

\* Attempt a completes, putting `evs`.
Completes(a, evs) ==
    IF a = 0 THEN outcome
    ELSE [outcome EXCEPT ![a] =
            IF @ = "pending" /\ Outcomes(evs) = 0 THEN "none"
            ELSE IF @ = "pending" /\ Outcomes(evs) = 1 THEN "one"
            ELSE "many"]

PutStatus(evs) ==
    /\ status_queue' = put_all(status_queue, evs, putS)
    /\ putS' = putS + Len(evs)

\* Mutant of get_nowait: a LIFO queue.
get_newest(q) == Len(q)

\* queue.Queue.get_nowait: the position of the item it returns (the oldest).
get_nowait(q) == 1

\* Mutant of after_get: the item is read and stays on the queue.
after_peek(q) == q

\* queue.Queue.get_nowait: the queue it leaves.
after_get(q) ==
    [i \in 1..(Len(q) - 1) |-> IF i < get_nowait(q) THEN q[i] ELSE q[i + 1]]

\* Mutant of finally_after: the timer is armed again only after an event.
finally_skipped == FALSE

\* finally: self.after(..., self._drain_..._queue): the drain's timer is
\* armed again when the loop ends with queue.Empty.
finally_after == TRUE

\* The return code of subscribe, unsubscribe and publish on client c:
\* MQTT_ERR_SUCCESS (0) with a socket, MQTT_ERR_NO_CONN (4) without one.
lib_rc(c) == IF mqtt[c].sock # "none" THEN 0 ELSE 4

\* What the program shows the user for a call that returned `rc` without
\* raising: the opening words of the line it logs.
shown_for(op, rc) ==
    CASE op = "subscribe" -> "Subscribed to"
      [] op = "unsubscribe" -> "Unsubscribed from"
      [] op = "publish" -> IF rc = 0 THEN "Published to" ELSE "Publish failed"
      [] OTHER -> ""

\* A broker-client call the program issues, with its return code and what
\* the user is shown for it.
Call(op, c, topic) ==
    [ op |-> op, c |-> c, topic |-> topic, up |-> mqtt[c].sock = "up",
      rc |-> lib_rc(c), shown |-> shown_for(op, lib_rc(c)) ]

\* A message box the program shows instead of issuing a call.
messagebox(title) ==
    [ op |-> "messagebox", c |-> 0, topic |-> <<>>, up |-> FALSE, rc |-> 0,
      shown |-> title ]

\* ------------------------------------------------- paho client (environment)
\* Client.disconnect(): the client enters the disconnecting state; with a
\* socket it sends DISCONNECT, without one it returns MQTT_ERR_NO_CONN.
lib_disconnect(m, c) == [m EXCEPT ![c].disc = TRUE]

\* Client.subscribe(topic): SUBSCRIBE reaches the broker on a live session;
\* otherwise the call returns an error code and subscribes nothing.
lib_subscribe(m, c, topics) ==
    IF m[c].sock = "up" THEN [m EXCEPT ![c].subs = @ \cup topics] ELSE m

\* Client.unsubscribe(topic)
lib_unsubscribe(m, c, topics) ==
    IF m[c].sock = "up" THEN [m EXCEPT ![c].subs = @ \ topics] ELSE m

\* Client.publish(...).rc = 0: the packet went out on a socket.
lib_publish_ok(c) == mqtt[c].sock # "none"

\* ------------------------------------------------------------ UI: connection
\* The tags _drain_status_queue re-subscribes: list(self.subscribed).
resubscribe_tags == subscribed

\* Mutant of _subscribe_to_topic: the flag is read as it was before the
\* handler set it.
subscribe_stale_flag(conn, tags) ==
    IF ~connected \/ client = 0
    THEN {}
    ELSE { Call("subscribe", client, topic_of(t)) : t \in tags }

\* Mutant of _subscribe_to_topic: the flag is not tested.
subscribe_unguarded(conn, tags) ==
    IF client = 0
    THEN {}
    ELSE { Call("subscribe", client, topic_of(t)) : t \in tags }

\* _subscribe_to_topic for each tag of `tags`, with self.connected = conn:
\* the subscribe calls it issues.
_subscribe_to_topic(conn, tags) ==
    IF ~conn \/ client = 0
    THEN {}
    ELSE { Call("subscribe", client, topic_of(t)) : t \in tags }

\* The connection attempts made so far.
Attempts == Cardinality({ w \in Clients : worker[w] # "none" }) + nReconn

\* The worker thread _connect_async starts: the next unused worker id.
NextWorker == CHOOSE w \in Clients : worker[w] = "none" /\ \A v \in 1..(w - 1) : worker[v] # "none"

\* _connect_async: start one worker thread.
_connect_async ==
    /\ Attempts < MaxAttempts
    /\ worker' = [worker EXCEPT ![NextWorker] = "new"]

\* The Connect/Disconnect button (paho-mqtt is installed: mqtt is not None).
_toggle_connection ==
    /\ uiPc = "idle"
    /\ IF connected
       THEN /\ mqtt' = lib_disconnect(mqtt, client)
            /\ connected' = FALSE
            /\ discShown' = [discShown EXCEPT ![client] =
                                IF @ < 0 THEN @ ELSE UpTo(@ + 1)]
            /\ calls' = { Call("disconnect", client, <<>>) }
            /\ UNCHANGED worker
       ELSE /\ _connect_async
            /\ calls' = {}
            /\ UNCHANGED << mqtt, connected, discShown >>
    /\ UNCHANGED << app, sanitized, client, subscribed, sub_list, tweet_text, status_queue,
                    msg_queue, timerVars, netVars, histS, histM >>

\* -------------------------------------------------- worker thread (connect)
\* After setting on_disconnect the subscriber sets on_message, the publisher
\* connects.
AfterOnDisconnect == IF app = "subscriber" THEN "set_on_message" ELSE "connect"

\* self.client = mqtt.Client()
WorkerNew(w) ==
    /\ worker[w] = "new"
    /\ client' = w
    /\ mqtt' = [mqtt EXCEPT ![w].made = TRUE]
    /\ worker' = [worker EXCEPT ![w] = "set_on_connect"]
    /\ calls' = {}
    /\ UNCHANGED << app, sanitized, uiVars, status_queue, msg_queue, timerVars, netVars,
                    histS, histM, discShown >>

\* self.client.on_connect = ...; .on_disconnect = ...; .on_message = ...
\* Each line reads self.client again.
WorkerSetCallback(w) ==
    /\ worker[w] \in {"set_on_connect", "set_on_disconnect", "set_on_message"}
    /\ mqtt' = CASE worker[w] = "set_on_connect" ->
                      [mqtt EXCEPT ![client].on_connect = TRUE]
                 [] worker[w] = "set_on_disconnect" ->
                      [mqtt EXCEPT ![client].on_disconnect = TRUE]
                 [] OTHER ->
                      [mqtt EXCEPT ![client].on_message = TRUE]
    /\ worker' = [worker EXCEPT ![w] =
                    CASE worker[w] = "set_on_connect" -> "set_on_disconnect"
                      [] worker[w] = "set_on_disconnect" -> AfterOnDisconnect
                      [] OTHER -> "connect"]
    /\ calls' = {}
    /\ UNCHANGED << app, sanitized, client, uiVars, status_queue, msg_queue, timerVars,
                    netVars, histS, histM, discShown >>

\* self.client.connect(broker, port, keepalive=60) returns: any earlier
\* socket of that client is closed, a new one is open and CONNECT is sent.
WorkerConnectOk(w) ==
    /\ worker[w] = "connect"
    /\ mqtt' = [mqtt EXCEPT ![client].sock = "sent", ![client].by = w,
                            ![client].disc = FALSE,
                            ![client].subs = {}, ![client].inbox = <<>>]
    /\ worker' = [worker EXCEPT ![w] = "loop_start"]
    /\ calls' = { Call("connect", client, <<>>) }
    /\ UNCHANGED << app, sanitized, client, uiVars, status_queue, msg_queue, timerVars,
                    netVars, histS, histM, discShown >>

\* self.client.connect(...) raises (refused, unreachable, bad host):
\* except Exception as e: self.status_queue.put(("error", ...))
WorkerConnectRaises(w) ==
    /\ worker[w] = "connect"
    /\ mqtt' = [mqtt EXCEPT ![client].sock = "none", ![client].by = 0,
                            ![client].disc = FALSE,
                            ![client].subs = {}, ![client].inbox = <<>>]
    /\ worker' = [worker EXCEPT ![w] = "done"]
    /\ PutStatus(<< <<"error", w, FALSE>> >>)
    /\ outcome' = Completes(w, << <<"error", w, FALSE>> >>)
    /\ calls' = { Call("connect", client, <<>>) }
    /\ UNCHANGED << app, sanitized, client, uiVars, msg_queue, timerVars, netVars,
                    gotS, nGotS, histM, discShown >>

\* self.client.loop_start(): starts the network thread unless the client
\* already has one (also one that has ended).
WorkerLoopStart(w) ==
    /\ worker[w] = "loop_start"
    /\ mqtt' = [mqtt EXCEPT ![client].loop =
                    IF @ = "none" THEN "running" ELSE @]
    /\ worker' = [worker EXCEPT ![w] = "done"]
    /\ calls' = {}
    /\ UNCHANGED << app, sanitized, client, uiVars, status_queue, msg_queue, timerVars,
                    netVars, histS, histM, discShown >>

Worker(w) ==
    \/ WorkerNew(w)
    \/ WorkerSetCallback(w)
    \/ WorkerConnectOk(w)
    \/ WorkerConnectRaises(w)
    \/ WorkerLoopStart(w)

\* ------------------------------------------------ library callbacks (pushes)
\* _on_connect(client, userdata, flags, reason_code): the event it puts.
_on_connect(c, reason_code) ==
    IF reason_code = 0 THEN <<"connected", c, FALSE>> ELSE <<"error", c, FALSE>>

\* _on_disconnect(client, userdata, reason_code): the event it puts.
_on_disconnect(c) == <<"disconnected", c, mqtt[c].sock = "up">>

\* _on_message(client, userdata, message): the line it puts on msg_queue.
_on_message(c, message) ==
    [topic |-> message.topic, m |-> message.m, src |-> c]

\* The network loop ends when the client is disconnecting; otherwise it
\* stays and will reconnect.
LoopAfterClose(c) == IF mqtt[c].disc THEN "exited" ELSE "running"

\* ------------------------------------ network loop threads (environment)
\* CONNACK arrives on client c's loop thread; on_connect runs if it is set.
\* A refusal also closes the socket, and on_disconnect runs if it is set.
NetConnack(c, reason_code) ==
    /\ mqtt[c].loop = "running"
    /\ mqtt[c].sock = "sent"
    /\ LET evs == (IF mqtt[c].on_connect
                   THEN << _on_connect(c, reason_code) >> ELSE <<>>)
                  \o (IF reason_code # 0 /\ mqtt[c].on_disconnect
                      THEN << _on_disconnect(c) >> ELSE <<>>)
       IN  /\ PutStatus(evs)
           /\ outcome' = Completes(mqtt[c].by, evs)
    /\ mqtt' = IF reason_code = 0
               THEN [mqtt EXCEPT ![c].sock = "up", ![c].by = 0]
               ELSE [mqtt EXCEPT ![c].sock = "none", ![c].by = 0,
                                 ![c].loop = LoopAfterClose(c)]
    /\ calls' = {}
    /\ UNCHANGED << app, sanitized, client, uiVars, msg_queue, timerVars, worker,
                    netVars, gotS, nGotS, histM, discShown >>

\* Client c's connection ends: after the program's disconnect(), or because
\* the broker or the network dropped it.  on_disconnect runs if it is set.
NetClose(c) ==
    /\ mqtt[c].loop = "running"
    /\ mqtt[c].sock # "none"
    /\ mqtt' = [mqtt EXCEPT ![c].sock = "none", ![c].by = 0, ![c].subs = {},
                            ![c].inbox = <<>>, ![c].loop = LoopAfterClose(c)]
    /\ PutStatus(IF mqtt[c].on_disconnect THEN << _on_disconnect(c) >> ELSE <<>>)
    /\ calls' = {}
    /\ UNCHANGED << app, sanitized, client, uiVars, msg_queue, timerVars, worker,
                    netVars, gotS, nGotS, outcome, histM, discShown >>

\* Client c's loop thread, not disconnecting and without a socket,
\* reconnects on its own.
NetReconnect(c) ==
    /\ mqtt[c].loop = "running"
    /\ mqtt[c].sock = "none"
    /\ ~mqtt[c].disc
    /\ Attempts < MaxAttempts
    /\ nReconn' = nReconn + 1
    /\ mqtt' = [mqtt EXCEPT ![c].sock = "sent"]
    /\ calls' = {}
    /\ UNCHANGED << app, sanitized, client, uiVars, status_queue, msg_queue, timerVars,
                    worker, nMsgs, histS, histM, discShown >>

\* The sessions subscribed to `topic`.
Receivers(topic) ==
    { c \in Clients : mqtt[c].sock = "up" /\ topic \in mqtt[c].subs }

\* The broker forwards one published message to every subscribed session.
BrokerPublish(tag) ==
    /\ nMsgs < MaxMsgs
    /\ Receivers(topic_of(tag)) # {}
    /\ nMsgs' = nMsgs + 1
    /\ mqtt' = [c \in Clients |->
                  IF c \in Receivers(topic_of(tag))
                  THEN [mqtt[c] EXCEPT !.inbox =
                          Append(@, [topic |-> topic_of(tag), m |-> nMsgs + 1])]
                  ELSE mqtt[c]]
    /\ calls' = {}
    /\ UNCHANGED << app, sanitized, client, uiVars, status_queue, msg_queue, timerVars,
                    worker, nReconn, histS, histM, discShown >>

\* Client c's loop thread reads its next inbound PUBLISH; on_message runs
\* if it is set.
NetMessage(c) ==
    /\ mqtt[c].loop = "running"
    /\ mqtt[c].sock = "up"
    /\ mqtt[c].inbox # <<>>
    /\ mqtt' = [mqtt EXCEPT ![c].inbox = Tail(@)]
    /\ IF mqtt[c].on_message
       THEN /\ msg_queue' = Append(msg_queue, _on_message(c, Head(mqtt[c].inbox)))
            /\ putM' = putM \cup { _on_message(c, Head(mqtt[c].inbox)) }
       ELSE UNCHANGED << msg_queue, putM >>
    /\ calls' = {}
    /\ UNCHANGED << app, sanitized, client, uiVars, status_queue, timerVars, worker,
                    netVars, histS, gotM, nGotM, discShown >>

Net(c) ==
    \/ \E reason_code \in {0, 5} : NetConnack(c, reason_code)
    \/ NetClose(c)
    \/ NetReconnect(c)
    \/ NetMessage(c)

\* ----------------------------------------------------------- UI: the drains
\* One pass of the while-loop of _drain_status_queue: get_nowait and the
\* branch for the event's kind, or queue.Empty and the finally clause.
_drain_status_queue ==
    /\ (uiPc = "idle" /\ statusTimer) \/ uiPc = "drainS"
    /\ IF status_queue # <<>>
       THEN LET e == status_queue[get_nowait(status_queue)]
                subs == IF app = "subscriber"
                        THEN _subscribe_to_topic(TRUE, resubscribe_tags)
                        ELSE {}
            IN  /\ status_queue' = after_get(status_queue)
                /\ gotS' = gotS \cup {e.id}
                /\ nGotS' = nGotS + 1
                /\ uiPc' = "drainS"
                /\ statusTimer' = FALSE
                /\ connected' = (e.kind = "connected")
                /\ calls' = IF e.kind = "connected" THEN subs ELSE {}
                /\ mqtt' = IF e.kind = "connected" /\ subs # {}
                           THEN lib_subscribe(mqtt, client, { x.topic : x \in subs })
                           ELSE mqtt
                /\ discShown' =
                     CASE e.kind = "connected" -> [discShown EXCEPT ![e.src] = 0]
                       [] e.kind = "disconnected" /\ e.cyc ->
                            [discShown EXCEPT ![e.src] =
                                IF @ < 0 THEN @ ELSE UpTo(@ + 1)]
                       [] OTHER -> discShown
       ELSE /\ uiPc' = "idle"
            /\ statusTimer' = finally_after
            /\ calls' = {}
            /\ UNCHANGED << status_queue, gotS, nGotS, connected, mqtt, discShown >>
    /\ UNCHANGED << app, sanitized, client, subscribed, sub_list, tweet_text, msg_queue,
                    msgTimer, worker, netVars, putS, outcome, histM >>

\* One pass of the while-loop of _drain_message_queue.
_drain_message_queue ==
    /\ (uiPc = "idle" /\ msgTimer) \/ uiPc = "drainM"
    /\ IF msg_queue # <<>>
       THEN LET line == msg_queue[get_nowait(msg_queue)]
            IN  /\ msg_queue' = after_get(msg_queue)
                /\ gotM' = gotM \cup {line}
                /\ nGotM' = nGotM + 1
                /\ uiPc' = "drainM"
                /\ msgTimer' = FALSE
       ELSE /\ uiPc' = "idle"
            /\ msgTimer' = finally_after
            /\ UNCHANGED << msg_queue, gotM, nGotM >>
    /\ calls' = {}
    /\ UNCHANGED << app, sanitized, client, uiVars, status_queue, statusTimer, worker,
                    mqtt, netVars, histS, putM, discShown >>

\* ------------------------------------------------ UI: subscribe, unsubscribe
\* The Subscribe button, with `raw` in the hashtag entry.
_subscribe(raw) ==
    /\ app = "subscriber"
    /\ uiPc = "idle"
    /\ LET tag == sanitize_hashtag(raw)
           subs == _subscribe_to_topic(connected, {tag})
       IN  IF tag = <<>>
           THEN /\ calls' = { messagebox("Invalid hashtag") }
                /\ UNCHANGED << subscribed, sub_list, mqtt >>
           ELSE IF tag \in subscribed
           THEN /\ calls' = { messagebox("Already subscribed") }
                /\ UNCHANGED << subscribed, sub_list, mqtt >>
           ELSE /\ subscribed' = subscribed \cup {tag}
                /\ sub_list' = Append(sub_list, <<"#">> \o tag)
                /\ calls' = subs
                /\ mqtt' = IF subs # {}
                           THEN lib_subscribe(mqtt, client, { x.topic : x \in subs })
                           ELSE mqtt
    /\ UNCHANGED << app, sanitized, client, connected, tweet_text, status_queue, msg_queue,
                    timerVars, worker, netVars, histS, histM,
                    discShown >>

\* str.lstrip("#")
RECURSIVE lstrip_hash(_)
lstrip_hash(s) == IF s # <<>> /\ Head(s) = "#" THEN lstrip_hash(Tail(s)) ELSE s

\* The Listbox without its first row whose label is #tag.
delete_row(rows, tag) ==
    LET hits == { i \in 1..Len(rows) : lstrip_hash(rows[i]) = tag }
    IN  IF hits = {} THEN rows
        ELSE LET k == CHOOSE i \in hits : \A j \in hits : i <= j
             IN  [i \in 1..(Len(rows) - 1) |-> IF i < k THEN rows[i] ELSE rows[i + 1]]

\* Mutant of not_subscribed: only the empty tag is turned away.
not_tag(tag) == tag = <<>>

\* if not tag or tag not in self.subscribed
not_subscribed(tag) == tag = <<>> \/ tag \notin subscribed

\* The Unsubscribe button, with row `sel` of the list selected (0: none) and
\* `raw` in the hashtag entry.
_unsubscribe(sel, raw) ==
    /\ app = "subscriber"
    /\ uiPc = "idle"
    /\ LET tag == IF sel # 0 THEN lstrip_hash(sub_list[sel])
                  ELSE sanitize_hashtag(raw)
       IN  IF not_subscribed(tag)
           THEN /\ calls' = { messagebox("Not subscribed") }
                /\ UNCHANGED << subscribed, sub_list, mqtt >>
           ELSE /\ subscribed' = subscribed \ {tag}
                /\ sub_list' = delete_row(sub_list, tag)
                /\ IF connected /\ client # 0
                   THEN /\ calls' = { Call("unsubscribe", client, topic_of(tag)) }
                        /\ mqtt' = lib_unsubscribe(mqtt, client, {topic_of(tag)})
                   ELSE /\ calls' = {}
                        /\ UNCHANGED mqtt
    /\ UNCHANGED << app, sanitized, client, connected, tweet_text, status_queue, msg_queue,
                    timerVars, worker, netVars, histS, histM,
                    discShown >>

\* ------------------------------------------------------------- UI: publish
\* The user edits the tweet body.
type_tweet(text) ==
    /\ app = "publisher"
    /\ uiPc = "idle"
    /\ tweet_text' = text
    /\ calls' = {}
    /\ UNCHANGED << app, sanitized, client, connected, subscribed, sub_list, status_queue,
                    msg_queue, timerVars, worker, mqtt, netVars, histS, histM, discShown >>

\* Mutant of publish_refusal: the body is tested before the hashtag.
refusal_body_first(hashtag, text) ==
    IF ~connected \/ client = 0 THEN "Not connected"
    ELSE IF text = <<>> THEN "Empty tweet"
    ELSE IF hashtag = <<>> THEN "Invalid hashtag"
    ELSE ""

\* The tests _publish makes before it publishes, in their order: the title
\* of the warning it returns with, "" when it goes on.
publish_refusal(hashtag, text) ==
    IF ~connected \/ client = 0 THEN "Not connected"
    ELSE IF hashtag = <<>> THEN "Invalid hashtag"
    ELSE IF text = <<>> THEN "Empty tweet"
    ELSE ""

\* The Publish Tweet button, with `raw` in the hashtag entry.
_publish(raw) ==
    /\ app = "publisher"
    /\ uiPc = "idle"
    /\ LET hashtag == sanitize_hashtag(raw)
           text == strip(tweet_text)
       IN  IF publish_refusal(hashtag, text) # ""
           THEN /\ calls' = { messagebox(publish_refusal(hashtag, text)) }
                /\ UNCHANGED tweet_text
           ELSE /\ calls' = { Call("publish", client, topic_of(hashtag)) }
                /\ tweet_text' = IF lib_publish_ok(client) THEN <<>> ELSE tweet_text
    /\ UNCHANGED << app, sanitized, client, connected, subscribed, sub_list, status_queue,
                    msg_queue, timerVars, worker, mqtt, netVars, histS, histM, discShown >>

\* ------------------------------------------------------------ specification
UINext ==
    \/ _toggle_connection
    \/ _drain_status_queue
    \/ _drain_message_queue
    \/ \E raw \in HashtagInputs : _subscribe(raw)
    \/ \E sel \in 0..Len(sub_list), raw \in HashtagInputs : _unsubscribe(sel, raw)
    \/ \E text \in TweetInputs : type_tweet(text)
    \/ \E raw \in HashtagInputs : _publish(raw)

WorkerNext == \E w \in Clients : Worker(w)

NetNext ==
    \/ \E c \in Clients : Net(c)
    \/ \E tag \in Tags : BrokerPublish(tag)

Next == UINext \/ WorkerNext \/ NetNext

Spec == Init /\ [][Next]_vars

\* ------------------------------------------- sanitize_hashtag on its own
\* sanitize_hashtag is called on the text the last call returned (on `raw`
\* the first time).
Sanitize ==
    /\ sanitized.n < 2
    /\ sanitized' = [raw |-> sanitized.raw, arg |-> sanitized.tag,
                     tag |-> sanitize_hashtag(sanitized.tag),
                     n |-> sanitized.n + 1]
    /\ UNCHANGED appVars

SanitizeInit == __init__ /\ sanitized \in { NotSanitized(t) : t \in Texts(MaxLen) }

SanitizeNext == Sanitize

SanitizeSpec == SanitizeInit /\ [][SanitizeNext]_vars

\* The Tk main loop runs every pending timer callback.
FairSpec ==
    /\ Spec
    /\ WF_vars(_drain_status_queue)
    /\ WF_vars(_drain_message_queue)

\* ------------------------------------------------------------------ claims
\* The status event the step handles has kind `kind`.
Handles(kind) ==
    /\ nGotS' = nGotS + 1
    /\ \E i \in DOMAIN status_queue :
          /\ status_queue[i].kind = kind
          /\ gotS' = gotS \cup { status_queue[i].id }

\* C1: whenever the subscriber's UI thread handles a Connected event, that
\* step issues exactly the calls subscribe("twitter/" + tag), one for every
\* tag of the subscribed set and none for another tag, all on self.client,
\* and on a live session every such topic is then subscribed at the broker.
C1_ResubscribeOnConnected ==
    [][ (app = "subscriber" /\ Handles("connected")) =>
          /\ { <<x.op, x.c, x.topic>> : x \in calls' }
               = { <<"subscribe", client, topic_of(t)>> : t \in subscribed }
          /\ mqtt[client].sock = "up" =>
               \A t \in subscribed : topic_of(t) \in mqtt'[client].subs ]_vars

\* C1 witness: after a connection was lost and the network loop reconnected,
\* the drain has just re-subscribed a tag on the live session.
C1_Witness ==
    /\ app = "subscriber"
    /\ uiPc = "drainS"
    /\ nReconn = 1
    /\ subscribed # {}
    /\ \E x \in calls : x.op = "subscribe" /\ x.up

\* C2: at most one connection attempt is in flight: of the worker threads
\* started, at most one has not completed yet (so that no Connected or error
\* event of it can have been handled).
C2_SingleAttemptInFlight ==
    Cardinality({ w \in Clients : worker[w] # "none" /\ outcome[w] = "pending" }) <= 1

\* C3: no message the broker delivers is put on msg_queue twice and none is
\* appended to the feed twice.
C3_MessageOnce ==
    \A m \in 1..MaxMsgs :
        /\ Cardinality({ x \in putM : x.m = m }) <= 1
        /\ Cardinality({ x \in gotM : x.m = m }) <= 1

\* C4: every publish call is issued on a session that is Connected.
C4_PublishOnlyConnected ==
    \A x \in calls : x.op = "publish" => x.up

\* The ids of the events on status_queue, the lines on msg_queue.
QueuedS == { status_queue[i].id : i \in DOMAIN status_queue }
QueuedM == { msg_queue[i] : i \in DOMAIN msg_queue }

\* C5: every event put on a queue is either still on it, once, or was
\* handled, once; the UI handled nothing that was not put, and nothing twice.
C5_ExactlyOnce ==
    /\ Cardinality(QueuedS) = Len(status_queue)
    /\ QueuedS \cap gotS = {}
    /\ QueuedS \cup gotS = 1..putS
    /\ Cardinality(gotS) = nGotS
    /\ Cardinality(QueuedM) = Len(msg_queue)
    /\ QueuedM \cap gotM = {}
    /\ QueuedM \cup gotM = putM
    /\ Cardinality(gotM) = nGotM

\* C5 witness: events of both queues were handled while others wait.
C5_Witness ==
    /\ nGotS >= 2
    /\ nGotM >= 1
    /\ status_queue # <<>>
    /\ msg_queue # <<>>

\* C6: the UI handles status events in the order of their puts, and the
\* lines of one producer (one client's network thread, which puts them in
\* arrival order) reach the feed in that order.
C6_EnqueueOrder ==
    /\ \A i, j \in DOMAIN status_queue :
          i < j => status_queue[i].id < status_queue[j].id
    /\ \A i \in DOMAIN status_queue : \A g \in gotS : g < status_queue[i].id
    /\ \A i, j \in DOMAIN msg_queue :
          (i < j /\ msg_queue[i].src = msg_queue[j].src)
             => msg_queue[i].m < msg_queue[j].m
    /\ \A i \in DOMAIN msg_queue : \A g \in gotM :
          g.src = msg_queue[i].src => g.m < msg_queue[i].m

\* C6 witness: two lines of one producer are on the feed, and status events
\* of two producers were handled while another waits.
C6_Witness ==
    /\ \E x, y \in gotM : x.src = y.src /\ x.m # y.m
    /\ nGotS >= 2
    /\ Len(status_queue) >= 1

\* C7: a drain that ends has armed its timer again, and under fairness of
\* the timers every event put on a queue is eventually handled: a queue that
\* holds events is eventually empty, and (C5) an event leaves a queue only
\* by being handled.
C7_EventuallyHandled ==
    /\ [](uiPc = "idle" => statusTimer /\ (app = "subscriber" => msgTimer))
    /\ (status_queue # <<>>) ~> (status_queue = <<>>)
    /\ (msg_queue # <<>>) ~> (msg_queue = <<>>)

\* C7 witness: both drains went back to idle after handling events.
C7_Witness ==
    /\ uiPc = "idle"
    /\ nGotS >= 2
    /\ nGotM >= 2
    /\ status_queue = <<>>
    /\ msg_queue = <<>>

\* C8: for one connect cycle of a client at most one Disconnected notice
\* reaches the log.
C8_DisconnectedOnce ==
    \A c \in Clients : discShown[c] <= 1

\* C9: an attempt that has completed has put exactly one event that is
\* Connected or error.
C9_OneOutcome ==
    \A a \in Clients : outcome[a] \in {"pending", "one"}

\* C10: the worker threads and the library callbacks leave the connected
\* flag, the client reference and the subscribed set alone.
C10_Isolation ==
    [][ (WorkerNext \/ NetNext) =>
          UNCHANGED << connected, client, subscribed, sub_list, tweet_text >> ]_vars

\* C11: an Unsubscribe whose tag is empty or not in the subscribed set issues
\* no broker call (it shows a message box) and leaves the subscribed set, the
\* displayed list, the connected flag, the client reference and the broker
\* sessions as they were, whatever the connection state.
C11_UnsubscribeNoOp ==
    [][ (app = "subscriber" /\ uiPc = "idle") =>
          \A sel \in 0..Len(sub_list), raw \in HashtagInputs :
             LET tag == IF sel # 0 THEN lstrip_hash(sub_list[sel])
                        ELSE sanitize_hashtag(raw)
             IN  ((tag = <<>> \/ tag \notin subscribed) /\ _unsubscribe(sel, raw)) =>
                    /\ \A x \in calls' : x.op = "messagebox"
                    /\ UNCHANGED << subscribed, sub_list, connected, client, mqtt >>
      ]_vars

\* C11 witness: on a live session, with nothing subscribed, an Unsubscribe
\* was just turned away.
C11_Witness ==
    /\ app = "subscriber"
    /\ connected
    /\ mqtt[client].sock = "up"
    /\ subscribed = {}
    /\ calls = { messagebox("Not subscribed") }

\* C12: a Subscribe of a new tag made while the connected flag is false adds
\* the tag to the subscribed set and issues no broker call; a tag leaves the
\* set only by an Unsubscribe; and the step that handles the next Connected
\* event issues subscribe("twitter/" + tag) on self.client for every tag then
\* in the set.
C12_DeferredSubscribe ==
    [][ app = "subscriber" =>
          /\ (uiPc = "idle" /\ ~connected) =>
                \A raw \in HashtagInputs :
                   LET tag == sanitize_hashtag(raw)
                   IN  (tag # <<>> /\ tag \notin subscribed /\ _subscribe(raw)) =>
                          /\ subscribed' = subscribed \cup {tag}
                          /\ calls' = {}
          /\ (\E t \in subscribed : t \notin subscribed') =>
                \E sel \in 0..Len(sub_list), raw \in HashtagInputs :
                   _unsubscribe(sel, raw)
          /\ Handles("connected") =>
                \A t \in subscribed :
                   \E x \in calls' :
                      x.op = "subscribe" /\ x.c = client /\ x.topic = topic_of(t)
      ]_vars

\* C12 witness: the first status event ever handled is a Connected event, and
\* handling it has just subscribed, on the live session, a tag that was added
\* before (hence while the flag was false).
C12_Witness ==
    /\ app = "subscriber"
    /\ uiPc = "drainS"
    /\ nGotS = 1
    /\ nReconn = 0
    /\ connected
    /\ \E x \in calls : x.op = "subscribe" /\ x.up /\ x.c = client

\* C13: no Connected event is on the status queue unless a worker thread,
\* started by the user's Connect, has made its connect call; and until the first Connect
\* (no worker thread exists yet) the connected flag is false, no client
\* exists and every Publish is turned away without a publish call.
C13_NothingBeforeConnect ==
    /\ \A i \in DOMAIN status_queue :
          status_queue[i].kind = "connected" =>
             \E w \in Clients : worker[w] \in {"loop_start", "done"}
    /\ (\A w \in Clients : worker[w] = "none") =>
          /\ putS = 0
          /\ ~connected
          /\ client = 0
          /\ \A x \in calls : x.op = "messagebox"

\* C13 witness: before the first Connect, with a tweet body typed, a Publish
\* was just turned away as not connected.
C13_Witness ==
    /\ app = "publisher"
    /\ \A w \in Clients : worker[w] = "none"
    /\ strip(tweet_text) # <<>>
    /\ calls = { messagebox("Not connected") }

\* C14: whenever a subscribe or publish call returns a non-success code, the
\* user is shown a failure for its topic, never "Subscribed to" or
\* "Published to".
C14_FailureShown ==
    \A x \in calls :
        (x.op \in {"subscribe", "publish"} /\ x.rc # 0) =>
            x.shown \notin {"Subscribed to", "Published to"}

\* C15: a Publish whose hashtag normalizes to empty, or whose body is blank
\* after trimming, issues no publish call and leaves the connected flag, the
\* client, the broker sessions and the tweet body as they were; it is turned
\* away as "Not connected" when the flag is false or there is no client,
\* else as "Invalid hashtag" when the hashtag is empty, else as "Empty tweet".
C15_PublishRejections ==
    [][ (app = "publisher" /\ uiPc = "idle") =>
          \A raw \in HashtagInputs :
             LET hashtag == sanitize_hashtag(raw)
                 text == strip(tweet_text)
             IN  ((hashtag = <<>> \/ text = <<>>) /\ _publish(raw)) =>
                    /\ UNCHANGED << connected, client, mqtt, tweet_text >>
                    /\ calls' =
                         { messagebox(
                             IF ~connected \/ client = 0 THEN "Not connected"
                             ELSE IF hashtag = <<>> THEN "Invalid hashtag"
                             ELSE "Empty tweet") }
      ]_vars

\* C15 witness: connected, with a blank body, a Publish with an empty hashtag
\* was just turned away for its hashtag.
C15_Witness ==
    /\ app = "publisher"
    /\ connected
    /\ client # 0
    /\ tweet_text # <<>>
    /\ strip(tweet_text) = <<>>
    /\ calls = { messagebox("Invalid hashtag") }

\* C16: every topic passed to publish, subscribe or unsubscribe is "twitter/"
\* followed by a non-empty tag of letters, digits, "_" and "-" only; this
\* includes the tags taken from a selected list row and those re-subscribed
\* when a Connected event is handled.
C16_TopicsWellFormed ==
    \A x \in calls :
        x.op \in {"publish", "subscribe", "unsubscribe"} =>
            /\ Len(x.topic) > Len(TOPIC_PREFIX)
            /\ SubSeq(x.topic, 1, Len(TOPIC_PREFIX)) = TOPIC_PREFIX
            /\ \A i \in (Len(TOPIC_PREFIX) + 1)..Len(x.topic) :
                  x.topic[i] \in Letters \cup Digits \cup {"_", "-"}

\* C16 witness: after a reconnection, on a live session, an unsubscribe call
\* was just issued.
C16_Witness ==
    /\ app = "subscriber"
    /\ nReconn >= 1
    /\ \E x \in calls : x.op = "unsubscribe" /\ x.up

\* C17: sanitize_hashtag is idempotent: called on a text it has returned, it
\* returns that text, for every text of at most MaxLen characters over
\* letters, digits, "_", "-", "#", "!" and whitespace.
C17_SanitizeIdempotent ==
    sanitized.n = 2 => sanitized.tag = sanitized.arg

\* C17 witness: a text with "#", whitespace and a letter was sanitized twice,
\* and the first call changed it.
C17_Witness ==
    /\ sanitized.n = 2
    /\ sanitized.raw = <<"#", " ", "a">>
    /\ sanitized.tag = <<"_", "a">>

SessionConnected(c) == c # 0 /\ mqtt[c].sock = "up" /\ ~mqtt[c].disc

\* No connect attempt is in flight: no worker thread is between its start
\* and its end, and no client waits for CONNACK.
NoAttemptInFlight ==
    /\ \A w \in Clients : worker[w] \in {"none", "done"}
    /\ \A c \in Clients : mqtt[c].sock # "sent"

\* C19: whenever the status queue is empty and no connect attempt is in
\* flight, the connected flag is true exactly when the client self.client
\* refers to has a connected broker session.
C19_FlagMirrorsSession ==
    (status_queue = <<>> /\ NoAttemptInFlight) =>
        (connected <=> SessionConnected(client))

\* Client c is live: disconnect() was not called on it and its network loop
\* runs or its session is connected.
Live(c) == ~mqtt[c].disc /\ (mqtt[c].loop = "running" \/ mqtt[c].sock = "up")

\* C20: no client other than the one self.client refers to has a running
\* network loop or a connected session.
C20_OneLiveSession ==
    \A c \in Clients : Live(c) => c = client

====
